---- MODULE Spec2Model ----
(***************************************************************************)
(* Model of config_schizophrenia.py: a single-shot diagnostic that walks   *)
(* the working directory for configuration files, groups them by basename, *)
(* reports the groups whose contents differ, audits five environment       *)
(* variables and returns an exit code.                                     *)
(*                                                                         *)
(* Strings are TLA+ strings; substring tests, glob matching and path       *)
(* joining are computed character by character as Python computes them.    *)
(* A path is the sequence of its components; str(path) joins them by "/".  *)
(***************************************************************************)
EXTENDS Integers, Sequences, FiniteSets, TLC

VARIABLES
    fs,         \* the directory tree: path (component sequence) -> file
    env,        \* os.environ restricted to the names the program looks up
    pc,         \* position in main()
    pat,        \* find_config_files: index of the pattern being globbed
    visited,    \* find_config_files: paths the current rglob has yielded
    configs,    \* find_config_files: the dict, as an insertion-ordered list
    gi,         \* compare_configs: index of the dict item being processed
    contents,   \* compare_configs: (path, content) pairs of the current group
    opened,     \* the open() calls made so far, in order
    issues,     \* compare_configs: the result list
    si,         \* check_env_vars: index of the suspect being examined
    missing,    \* check_env_vars: the result list
    out,        \* the lines printed so far (glyphs left out)
    rc          \* main()'s return value; -1 while it has not returned

vars == <<fs, env, pc, pat, visited, configs, gi, contents, opened, issues,
          si, missing, out, rc>>

----------------------------------------------------------------------------
(* Bounds and input universes *)

\* largest number of files in a tree explored for the discovery walk
MaxTreeFiles == 2

\* largest number of files in a tree explored for the comparison
MaxGroupFiles == 4

\* directories a file of the discovery trees may live in
TreeDirs ==
    { <<>>, <<"sub">>, <<"venv">>, <<"sub", "venv">>, <<".git">>,
      <<".github">>, <<"node_modules", "pkg">>, <<"__pycache__">>,
      <<"myvenv">> }

\* file names of the discovery trees
TreeNames ==
    { "config.json", ".env", "venv.yaml", "app.yml", "settings_dev.py",
      "notes.txt" }

TreePaths == { d \o <<n>> : d \in TreeDirs, n \in TreeNames }

\* paths of the comparison trees: two basenames, up to three locations
GroupPaths ==
    { <<"config.json">>, <<"sub", "config.json">>, <<"lib", "config.json">>,
      <<".env">>, <<"sub", ".env">> }

----------------------------------------------------------------------------
(* Strings *)

\* Python's  sub in s
Contains(sub, s) ==
    \E i \in 1..(Len(s) - Len(sub) + 1) : SubSeq(s, i, i + Len(sub) - 1) = sub

StartsWith(s, prefix) ==
    Len(prefix) <= Len(s) /\ SubSeq(s, 1, Len(prefix)) = prefix

\* str(path) of a relative pathlib.Path: the components joined by "/"
RECURSIVE Str(_)
Str(path) ==
    IF Len(path) = 1 THEN path[1]
    ELSE path[1] \o "/" \o Str(Tail(path))

\* the components of a path string, as the operating system resolves it
RECURSIVE Split(_)
Split(s) ==
    IF ~Contains("/", s) THEN <<s>>
    ELSE LET i == CHOOSE k \in 1..Len(s) :
                    /\ SubSeq(s, k, k) = "/"
                    /\ \A j \in 1..(k - 1) : SubSeq(s, j, j) # "/"
         IN <<SubSeq(s, 1, i - 1)>> \o Split(SubSeq(s, i + 1, Len(s)))

\* path.name
Name(path) == path[Len(path)]

\* glob matching of one path component against a pattern; "*" matches any
\* run of characters, every other character of the patterns used is literal
RECURSIVE Match(_, _)
Match(pattern, s) ==
    IF pattern = "" THEN s = ""
    ELSE IF Head(pattern) = "*"
         THEN Match(Tail(pattern), s) \/ (s # "" /\ Match(pattern, Tail(s)))
         ELSE s # "" /\ Head(s) = Head(pattern) /\ Match(Tail(pattern), Tail(s))

Range(seq) == { seq[i] : i \in 1..Len(seq) }

----------------------------------------------------------------------------
(* Program constants *)

CONFIG_PATTERNS == <<".env", "config*.json", "settings*.py", "*.yaml", "*.yml">>

ExcludedParts == <<"__pycache__", "venv", ".git", "node_modules">>

\* a variant of the suspect list in sorted order
SuspectsSorted == <<"API_KEY", "DATABASE_URL", "DEBUG", "ENVIRONMENT", "SECRET">>

Suspects == <<"DATABASE_URL", "API_KEY", "SECRET", "DEBUG", "ENVIRONMENT">>

----------------------------------------------------------------------------
(* find_config_files *)

\* Path('.').rglob(pattern): the files of the tree whose name matches
RGlob(pattern) == { p \in DOMAIN fs : Match(pattern, Name(p)) }

\* a variant of the test that looks at the top-level directory only
IsSkippedTopLevel(path) == path[1] \in Range(ExcludedParts)

\* the test guarding "continue"
IsSkipped(path) ==
    \E k \in 1..Len(ExcludedParts) : Contains(ExcludedParts[k], Str(path))

\* configs[name].append(s) on a defaultdict(list) kept in insertion order
DictAppend(d, name, s) ==
    IF \E i \in 1..Len(d) : d[i].file = name
    THEN [ i \in 1..Len(d) |->
             IF d[i].file = name
             THEN [ file |-> name, paths |-> Append(d[i].paths, s) ]
             ELSE d[i] ]
    ELSE Append(d, [ file |-> name, paths |-> <<s>> ])

----------------------------------------------------------------------------
(* compare_configs *)

\* str(e) of the UnicodeDecodeError raised by f.read() on bytes that are not
\* valid text
DecodeError ==
    "'utf-8' codec can't decode byte 0xff in position 0: invalid start byte"

\* str(e) of the PermissionError raised by open(path)
DeniedError(s) == "[Errno 13] Permission denied: '" \o s \o "'"

\* a variant of the except clause that lets the exception through
OnReadErrorRaises(msg) == [ raised |-> TRUE, content |-> "" ]

\* the except clause: the exception is caught and a sentinel stands in for
\* the content
OnReadError(msg) == [ raised |-> FALSE, content |-> "ERROR: " \o msg ]

\* the try block around open(path, 'r') and f.read()
TryRead(s) ==
    LET f == fs[Split(s)]
    IN  IF f.kind = "text" THEN [ raised |-> FALSE, content |-> f.data ]
        ELSE IF f.kind = "denied" THEN OnReadError(DeniedError(s))
        ELSE OnReadError(DecodeError)

\* a variant of the test that compares the first two files only
DivergentFirstTwo(cs) == cs[1][2] # cs[2][2]

\* a variant of the test that forgets to project the content out of the
\* (path, content) pairs
DivergentPairs(cs) == Cardinality({ cs[i] : i \in 1..Len(cs) }) > 1

\* len(set(content for _, content in contents)) > 1
Divergent(cs) == Cardinality({ cs[i][2] : i \in 1..Len(cs) }) > 1

\* len(paths) > 1
HasSeveralPaths(paths) == Len(paths) > 1

\* the dict appended to issues
MakeIssue(filename, paths) ==
    [ file |-> filename, paths |-> paths, differences |-> TRUE ]

----------------------------------------------------------------------------
(* check_env_vars *)

\* os.environ.get(name, '')
EnvGet(e, name) == IF name \in DOMAIN e THEN e[name] ELSE ""

LocalhostMsg(suspect) == suspect \o ": Using localhost in production? Bold."

NotSetMsg(suspect) == suspect \o ": Not set (probably fine... probably)"

\* a variant of the body that tests the truth of the value instead of the
\* presence of the name, so that an empty value counts as unset
SuspectIssuesFalsy(suspect, e) ==
    IF EnvGet(e, suspect) # ""
    THEN IF Contains("localhost", e[suspect])
            /\ Contains("production", EnvGet(e, "ENVIRONMENT"))
         THEN <<LocalhostMsg(suspect)>>
         ELSE <<>>
    ELSE <<NotSetMsg(suspect)>>

\* a variant of the body that looks for localhost in DATABASE_URL whatever
\* the suspect
SuspectIssuesDatabase(suspect, e) ==
    IF suspect \in DOMAIN e
    THEN IF Contains("localhost", EnvGet(e, "DATABASE_URL"))
            /\ Contains("production", EnvGet(e, "ENVIRONMENT"))
         THEN <<LocalhostMsg(suspect)>>
         ELSE <<>>
    ELSE <<NotSetMsg(suspect)>>

\* the body of the loop over suspects: the strings it appends to missing
SuspectIssues(suspect, e) ==
    IF suspect \in DOMAIN e
    THEN IF Contains("localhost", e[suspect])
            /\ Contains("production", EnvGet(e, "ENVIRONMENT"))
         THEN <<LocalhostMsg(suspect)>>
         ELSE <<>>
    ELSE <<NotSetMsg(suspect)>>

----------------------------------------------------------------------------
(* main *)

\* a variant of the exit code that asks for both lists to be non-empty
ExitCodeBoth(is, es) == IF is # <<>> /\ es # <<>> THEN 1 ELSE 0

\* the value main() returns
ExitCode(is, es) == IF is # <<>> \/ es # <<>> THEN 1 ELSE 0

\* the lines printed for the divergent groups
RECURSIVE PathLines(_)
PathLines(paths) ==
    IF paths = <<>> THEN <<>>
    ELSE <<"- " \o Head(paths)>> \o PathLines(Tail(paths))

RECURSIVE IssueLines(_)
IssueLines(is) ==
    IF is = <<>> THEN <<>>
    ELSE <<Head(is).file \o " has " \o ToString(Len(Head(is).paths))
             \o " different versions">>
         \o PathLines(Head(is).paths) \o IssueLines(Tail(is))

----------------------------------------------------------------------------
(* Initial states: the trees and environments the program is run in *)

TextFile(data) == [ kind |-> "text", data |-> data ]

\* a path open() raises on with a message that names the path (a file the
\* user may not read; a directory whose name matches a pattern is alike),
\* and a file whose bytes f.read() cannot decode
DeniedFile == [ kind |-> "denied", data |-> "" ]

UndecodableFile == [ kind |-> "undecodable", data |-> "" ]

\* the files of the comparison trees; one text is the very string the
\* except clause builds for an undecodable file
GroupFiles ==
    { TextFile("A=1"), TextFile("A=2"), TextFile("ERROR: " \o DecodeError),
      DeniedFile, UndecodableFile }

\* the subsets of S with at most k elements
RECURSIVE SubsetsUpTo(_, _)
SubsetsUpTo(S, k) ==
    IF k = 0 THEN { {} }
    ELSE LET r == SubsetsUpTo(S, k - 1)
         IN  r \cup { T \cup {x} : T \in r, x \in S }

\* values an environment variable may hold
EnvValues ==
    { "", "http://localhost:5432", "production", "localhost.production" }

Envs == UNION { [ D -> EnvValues ] : D \in SUBSET Range(Suspects) }

EnvNone == [ n \in {} |-> "" ]

\* every suspect set, none to a flagged value
EnvBenign ==
    [ n \in Range(Suspects) |-> IF n = "ENVIRONMENT" THEN "staging" ELSE "1" ]

TreesFind ==
    { [ p \in S |-> TextFile("A=1") ] : S \in SubsetsUpTo(TreePaths, MaxTreeFiles) }

TreesCompare ==
    UNION { [ S -> GroupFiles ] : S \in SubsetsUpTo(GroupPaths, MaxGroupFiles) }

TreesEnv ==
    { [ p \in {} |-> TextFile("") ],
      [ p \in { <<"config.json">>, <<"sub", "config.json">> } |->
          TextFile("A=1") ],
      [ p \in { <<"config.json">>, <<"sub", "config.json">> } |->
          TextFile(IF Len(p) = 1 THEN "A=1" ELSE "A=2") ] }

Start0 ==
    /\ pc = "start"
    /\ pat = 1
    /\ visited = {}
    /\ configs = <<>>
    /\ gi = 1
    /\ contents = <<>>
    /\ opened = <<>>
    /\ issues = <<>>
    /\ si = 1
    /\ missing = <<>>
    /\ out = <<>>
    /\ rc = -1

InitFind == fs \in TreesFind /\ env = EnvNone /\ Start0

InitCompare == fs \in TreesCompare /\ env = EnvBenign /\ Start0

InitEnv == fs \in TreesEnv /\ env \in Envs /\ Start0

----------------------------------------------------------------------------
(* The steps of main() *)

\* main() is entered: the banner and the first section header are printed
\* and find_config_files() is called
Start ==
    /\ pc = "start"
    /\ pc' = "find"
    /\ out' = out \o <<"Config Schizophrenia Diagnosis",
                       "1. Multiple Config Personalities:">>
    /\ UNCHANGED <<fs, env, pat, visited, configs, gi, contents, opened,
                   issues, si, missing, rc>>

\* one iteration of  for path in Path('.').rglob(pattern):  the walk yields
\* the matches in an order of its own choosing
FindYield ==
    /\ pc = "find"
    /\ \E p \in RGlob(CONFIG_PATTERNS[pat]) \ visited :
         /\ visited' = visited \cup {p}
         /\ configs' = IF IsSkipped(p) THEN configs
                       ELSE DictAppend(configs, Name(p), Str(p))
    /\ UNCHANGED <<fs, env, pc, pat, gi, contents, opened, issues, si,
                   missing, out, rc>>

\* the rglob of the current pattern is exhausted: next pattern, or return
\* configs to main(), which calls compare_configs(configs)
FindNextPattern ==
    /\ pc = "find"
    /\ RGlob(CONFIG_PATTERNS[pat]) \ visited = {}
    /\ visited' = {}
    /\ IF pat < Len(CONFIG_PATTERNS)
       THEN pat' = pat + 1 /\ pc' = pc
       ELSE pat' = pat /\ pc' = "compare"
    /\ UNCHANGED <<fs, env, configs, gi, contents, opened, issues, si,
                   missing, out, rc>>

\* one iteration of  for filename, paths in configs.items():  up to the
\* test of len(paths)
CompareNextGroup ==
    /\ pc = "compare"
    /\ gi <= Len(configs)
    /\ contents' = <<>>
    /\ IF HasSeveralPaths(configs[gi].paths)
       THEN pc' = "read" /\ gi' = gi
       ELSE pc' = pc /\ gi' = gi + 1
    /\ UNCHANGED <<fs, env, pat, visited, configs, opened, issues, si,
                   missing, out, rc>>

\* one iteration of  for path in paths:  the file is opened and read; an
\* exception the except clause does not catch ends the program
ReadPath ==
    /\ pc = "read"
    /\ Len(contents) < Len(configs[gi].paths)
    /\ LET s == configs[gi].paths[Len(contents) + 1]
           r == TryRead(s)
       IN  /\ opened' = Append(opened, s)
           /\ IF r.raised
              THEN pc' = "crashed" /\ contents' = contents
              ELSE pc' = pc /\ contents' = Append(contents, <<s, r.content>>)
    /\ UNCHANGED <<fs, env, pat, visited, configs, gi, issues, si, missing,
                   out, rc>>

\* every path of the group is read: the distinctness test, and the issue
CompareDecide ==
    /\ pc = "read"
    /\ Len(contents) = Len(configs[gi].paths)
    /\ issues' = IF Divergent(contents)
                 THEN Append(issues, MakeIssue(configs[gi].file, configs[gi].paths))
                 ELSE issues
    /\ gi' = gi + 1
    /\ pc' = "compare"
    /\ UNCHANGED <<fs, env, pat, visited, configs, contents, opened, si,
                   missing, out, rc>>

\* compare_configs returns; main() prints phase 1 and the header of phase 2
\* and calls check_env_vars()
ReportConfigs ==
    /\ pc = "compare"
    /\ gi > Len(configs)
    /\ out' = out
              \o (IF issues # <<>> THEN IssueLines(issues)
                  ELSE <<"All configs are consistent (unlikely)">>)
              \o <<"2. Environment Variable Ghosts:">>
    /\ pc' = "env"
    /\ UNCHANGED <<fs, env, pat, visited, configs, gi, contents, opened,
                   issues, si, missing, rc>>

\* one iteration of  for suspect in suspects:
CheckSuspect ==
    /\ pc = "env"
    /\ si <= Len(Suspects)
    /\ missing' = missing \o SuspectIssues(Suspects[si], env)
    /\ si' = si + 1
    /\ UNCHANGED <<fs, env, pc, pat, visited, configs, gi, contents, opened,
                   issues, out, rc>>

\* check_env_vars returns; main() prints phase 2 and the diagnosis and
\* returns the exit code
ReportEnv ==
    /\ pc = "env"
    /\ si > Len(Suspects)
    /\ out' = out
              \o (IF missing # <<>> THEN missing
                  ELSE <<"No obvious env var issues (check again)">>)
              \o <<"Diagnosis:">>
              \o (IF ExitCode(issues, missing) = 1
                  THEN <<"Your configs have multiple personalities.",
                         "Prescription: Pick one identity and stick with it.">>
                  ELSE <<"Configs appear stable (for now).",
                         "Warning: This tool has 99% accuracy. You're probably the 1%.">>)
    /\ rc' = ExitCode(issues, missing)
    /\ pc' = "done"
    /\ UNCHANGED <<fs, env, pat, visited, configs, gi, contents, opened,
                   issues, si, missing>>

Next ==
    \/ Start
    \/ FindYield
    \/ FindNextPattern
    \/ CompareNextGroup
    \/ ReadPath
    \/ CompareDecide
    \/ ReportConfigs
    \/ CheckSuspect
    \/ ReportEnv

\* where the calls of main() have returned
FindReturned == pc \in {"compare", "read", "env", "done"}

CompareReturned == pc \in {"env", "done"}

EnvReturned == pc = "done"

\* the discovery walk over trees of files in ordinary and excluded places
SpecFind == InitFind /\ [][Next]_vars

\* the comparison over trees of readable, unreadable and undecodable files
SpecCompare == InitCompare /\ [][Next]_vars

\* the audit over every environment of the five suspects
SpecEnv == InitEnv /\ [][Next]_vars

Init == InitFind \/ InitCompare \/ InitEnv

Spec == Init /\ [][Next]_vars

----------------------------------------------------------------------------
(* Properties *)

\* the group of the mapping keyed by a basename
GroupsOf(name) == { i \in 1..Len(configs) : configs[i].file = name }

IssuesOf(name) == { k \in 1..Len(issues) : issues[k].file = name }

\* the value compare_configs holds for a path: the text, or the sentinel
ValueOf(s) == TryRead(s).content

ValuesDiffer(paths) ==
    \E a \in Range(paths), b \in Range(paths) : ValueOf(a) # ValueOf(b)

IsReadable(s) == fs[Split(s)].kind = "text"

\* C1: main() returns 0 exactly when the divergence list and the
\* environment-issue list are both empty, and 1 in every other case.
C1_ExitCode ==
    pc = "done" =>
        /\ rc \in {0, 1}
        /\ rc = 0 <=> (issues = <<>> /\ missing = <<>>)

\* a run that returned 0 although the tree holds a group of several files
C1_Witness ==
    /\ pc = "done"
    /\ rc = 0
    /\ \E i \in 1..Len(configs) : Len(configs[i].paths) > 1

C3_OnlyDivergentReported ==
    \A k \in 1..Len(issues) :
        /\ GroupsOf(issues[k].file) # {}
        /\ \A i \in GroupsOf(issues[k].file) :
               /\ Len(configs[i].paths) >= 2
               /\ ValuesDiffer(configs[i].paths)

\* a group of one path and a group of identical files, neither reported,
\* beside a clean result
C3_Witness ==
    /\ CompareReturned
    /\ issues = <<>>
    /\ \E i \in 1..Len(configs) : Len(configs[i].paths) = 1
    /\ \E i \in 1..Len(configs) :
           /\ Len(configs[i].paths) >= 2
           /\ \A s \in Range(configs[i].paths) : IsReadable(s)

\* whether a component of the path string is an excluded directory name
HasExcludedComponent(s) ==
    \E c \in Range(Split(s)) : c \in Range(ExcludedParts)

MatchesSomePattern(name) ==
    \E k \in 1..Len(CONFIG_PATTERNS) : Match(CONFIG_PATTERNS[k], name)

\* C4: no path in the mapping built by find_config_files has a component
\* equal to an excluded directory name, and every path in it is a file of
\* the tree whose name matches one of the patterns.
C4_NoExcludedPath ==
    \A i \in 1..Len(configs) :
        \A s \in Range(configs[i].paths) :
            /\ ~HasExcludedComponent(s)
            /\ Split(s) \in DOMAIN fs
            /\ MatchesSomePattern(Name(Split(s)))
            /\ configs[i].file = Name(Split(s))

\* the walk is over, it met a matching file below an excluded directory
\* that is not at the top of the tree, and it kept another file
C4_Witness ==
    /\ FindReturned
    /\ configs # <<>>
    /\ \E p \in DOMAIN fs :
           /\ MatchesSomePattern(Name(p))
           /\ Len(p) = 3
           /\ p[2] \in Range(ExcludedParts)

\* C5: every file of the tree whose name matches a pattern and none of
\* whose components equals an excluded directory name is in the mapping,
\* under its basename.
C5_KeepsUnexcluded ==
    FindReturned =>
        \A p \in DOMAIN fs :
            (MatchesSomePattern(Name(p)) /\ ~HasExcludedComponent(Str(p))) =>
                \E i \in GroupsOf(Name(p)) : Str(p) \in Range(configs[i].paths)

\* the message of the result list that names a suspect, of either kind
IsNotSetFor(m, suspect) ==
    StartsWith(m, suspect \o ":") /\ Contains("Not set", m)

IsLocalhostFor(m, suspect) ==
    StartsWith(m, suspect \o ":") /\ Contains("localhost in production", m)

SuspectNames ==
    {"DATABASE_URL", "API_KEY", "SECRET", "DEBUG", "ENVIRONMENT"}

\* C6: when check_env_vars has returned, its list holds a "not set"
\* message for a suspect exactly when the suspect is unset; a suspect set
\* to the empty string has none.
C6_NotSetIffUnset ==
    EnvReturned =>
        \A n \in SuspectNames :
            (n \notin DOMAIN env) <=>
                (\E m \in Range(missing) : IsNotSetFor(m, n))

\* the audit is over for an environment with a suspect set to the empty
\* string and another unset
C6_Witness ==
    /\ EnvReturned
    /\ \E n \in SuspectNames : n \in DOMAIN env /\ env[n] = ""
    /\ \E n \in SuspectNames : n \notin DOMAIN env

\* C7: the list holds a localhost-in-production warning for a suspect
\* exactly when the suspect is set, its own value contains "localhost" and
\* the value of ENVIRONMENT contains "production"; with ENVIRONMENT unset
\* there is no warning at all.
C7_LocalhostWarning ==
    EnvReturned =>
        /\ \A n \in SuspectNames :
               (\E m \in Range(missing) : IsLocalhostFor(m, n)) <=>
                   /\ n \in DOMAIN env
                   /\ Contains("localhost", env[n])
                   /\ "ENVIRONMENT" \in DOMAIN env
                   /\ Contains("production", env["ENVIRONMENT"])
        /\ "ENVIRONMENT" \notin DOMAIN env =>
               \A n \in SuspectNames :
                   \A m \in Range(missing) : ~IsLocalhostFor(m, n)

\* the audit warned about ENVIRONMENT itself and about no other suspect,
\* although another suspect is set
C7_Witness ==
    /\ EnvReturned
    /\ \E m \in Range(missing) : IsLocalhostFor(m, "ENVIRONMENT")
    /\ "DATABASE_URL" \in DOMAIN env
    /\ \A m \in Range(missing) : ~IsLocalhostFor(m, "DATABASE_URL")

\* C8: the list never holds more than one message per suspect nor more
\* than five messages, its messages follow the order DATABASE_URL,
\* API_KEY, SECRET, DEBUG, ENVIRONMENT, and with none of the five set the
\* returned list is the five "not set" messages.
C8_OnePerSuspectInOrder ==
    LET order == <<"DATABASE_URL", "API_KEY", "SECRET", "DEBUG", "ENVIRONMENT">>
        named(m) == { k \in 1..5 : StartsWith(m, order[k] \o ": ") }
    IN  /\ Len(missing) <= 5
        /\ \A j \in 1..Len(missing) : Cardinality(named(missing[j])) = 1
        /\ \A a \in 1..Len(missing), b \in 1..Len(missing) :
               a < b => \A x \in named(missing[a]), y \in named(missing[b]) : x < y
        /\ (EnvReturned /\ DOMAIN env \cap SuspectNames = {}) =>
               /\ Len(missing) = 5
               /\ \A k \in 1..5 : IsNotSetFor(missing[k], order[k])

\* the audit returned five messages of both kinds
C8_Witness ==
    /\ EnvReturned
    /\ Len(missing) = 5
    /\ \E m \in Range(missing) : IsLocalhostFor(m, "ENVIRONMENT")
    /\ \E m \in Range(missing) : IsNotSetFor(m, "DATABASE_URL")

\* C9: a group that holds a file whose read failed and a file whose read
\* succeeded is reported as divergent.
C9_SentinelDistinct ==
    CompareReturned =>
        \A i \in 1..Len(configs) :
            ( /\ Len(configs[i].paths) >= 2
              /\ \E s \in Range(configs[i].paths) : ~IsReadable(s)
              /\ \E s \in Range(configs[i].paths) : IsReadable(s) ) =>
                IssuesOf(configs[i].file) # {}

\* the paths compare_configs has to read: those of the groups of several
\* paths, group after group
RECURSIVE PathsToRead(_)
PathsToRead(d) ==
    IF d = <<>> THEN <<>>
    ELSE (IF Len(Head(d).paths) > 1 THEN Head(d).paths ELSE <<>>)
         \o PathsToRead(Tail(d))

\* C10: no read ends the program: while compare_configs is reading a
\* group it can always go on, and main() is never left by an exception;
\* when main() returns, every path of every group of several paths has
\* been opened, in order, the five suspects have been examined and the
\* exit code is 0 or 1.
C10_NeverAborts ==
    /\ pc # "crashed"
    /\ pc = "read" => ENABLED (ReadPath \/ CompareDecide)
    /\ pc = "done" =>
           /\ opened = PathsToRead(configs)
           /\ si = Len(Suspects) + 1
           /\ rc \in {0, 1}

\* main() returned after a run in which the first read of the first group
\* failed and a second group was read after it
C10_Witness ==
    /\ pc = "done"
    /\ Len(opened) = 4
    /\ ~IsReadable(opened[1])
    /\ Name(Split(opened[1])) # Name(Split(opened[4]))

====
